---- MODULE Spec2Model ----
(***************************************************************************)
(* The historic-metrics editor (HistoricMetrics and EditableCell) of the  *)
(* daily-update admin front-end: pending edits, undo stack, save,          *)
(* snapshot fetches, live aggregates and keyboard navigation.              *)
(***************************************************************************)
EXTENDS Integers, Sequences, FiniteSets, Bags, TLC

\* ------------------------------------------------------------------------
\* Bounds of the model
\* ------------------------------------------------------------------------
MaxEdits == 3       \* handleEdit calls in one run of the grid of cells
MaxCommits == 2     \* handleEdit calls in one run of the page
MaxSelections == 2  \* filter changes in one run
MaxSaves == 2       \* handleSave invocations in one run
MaxAgents == 3      \* agent rows of a grid that is navigated
MaxMetrics == 3     \* metric columns of a grid that is navigated

\* ------------------------------------------------------------------------
\* Values: a JavaScript value is undefined, a number or a string
\* ------------------------------------------------------------------------
Undefined == [t |-> "undefined"]
Num(n) == [t |-> "number", v |-> n]
Str(s) == [t |-> "string", v |-> s]

\* what an input of type number / text can commit (EditableCell.commitValue)
NumericInputs == {Undefined, Num(10), Num(15)}
TextInputs == {Undefined, Str("x"), Str("y")}

\* Map helpers (JavaScript Map: set, delete, new Map())
EmptyMap == [k \in {} |-> Undefined]
MapSet(m, k, v) == [x \in (DOMAIN m) \cup {k} |-> IF x = k THEN v ELSE m[x]]
MapDelete(m, k) == [x \in (DOMAIN m) \ {k} |-> m[x]]

\* ------------------------------------------------------------------------
\* The Data Source: accounts, team leaders and the stored metric values
\* ------------------------------------------------------------------------
Accounts == {"a1"}
Dates == {"d1"}
TeamLeaders == {"t1"}

\* the rows of metric values the server stores (date d1)
Rows == {
  [id |-> "r1", account |-> "a1", team_leader |-> "t1", agent_id |-> "alice",
   metric_key |-> "dials", data_type |-> "integer"],
  [id |-> "r3", account |-> "a1", team_leader |-> "t2", agent_id |-> "bob",
   metric_key |-> "rate", data_type |-> "percentage"] }

RowIds == {r.id : r \in Rows}

InitialDb == [i \in RowIds |->
   CASE i = "r1" -> Num(10)
     [] i = "r3" -> Undefined]

AccountMetricDefs(account) ==
   CASE account = "a1" -> << [key |-> "dials", data_type |-> "integer"],
                             [key |-> "rate", data_type |-> "percentage"] >>
     [] OTHER -> << >>

IsTextType(data_type) == data_type = "text" \/ data_type = "duration"

\* HistoricMetricEntry: exactly one of the two value slots is used
HistoricMetricEntry(row, value) ==
   [id |-> row.id, agent_id |-> row.agent_id, agent_name |-> row.agent_id,
    metric_key |-> row.metric_key, data_type |-> row.data_type,
    value_numeric |-> IF IsTextType(row.data_type) THEN Undefined ELSE value,
    value_text |-> IF IsTextType(row.data_type) THEN value ELSE Undefined]

Selection(account, date, teamLeader) ==
   [account |-> account, date |-> date, teamLeader |-> teamLeader]

NoSelection == Selection("none", "none", "none")

\* api.getHistoricMetrics(accountId, date, teamLeaderId): the response for
\* the request sel when the server holds database
getHistoricMetrics(sel, database) ==
   LET rows == {r \in Rows : /\ r.account = sel.account
                             /\ sel.date \in Dates
                             /\ (sel.teamLeader = "" \/ r.team_leader = sel.teamLeader)}
   IN [for |-> sel,
       metric_definitions |-> IF rows = {} THEN << >> ELSE AccountMetricDefs(sel.account),
       metrics |-> {HistoricMetricEntry(r, database[r.id]) : r \in rows}]

\* api.bulkUpdateMetricValues(updates): the database after the batch
UpdateValue(u) ==
   IF "value_numeric" \in DOMAIN u THEN u.value_numeric ELSE u.value_text

bulkUpdateMetricValues(updates, database) ==
   [i \in DOMAIN database |->
      IF \E u \in updates : u.id = i
      THEN UpdateValue(CHOOSE u \in updates : u.id = i)
      ELSE database[i]]

\* ------------------------------------------------------------------------
\* tableData: the snapshot transformed for display
\* ------------------------------------------------------------------------
\* the order of a.name.localeCompare(b.name) on the agent names in use
AgentOrder == << "alice", "bob", "cara", "dan" >>

RECURSIVE SortedAgents(_, _)
SortedAgents(ids, i) ==
   IF i > Len(AgentOrder) THEN << >>
   ELSE (IF AgentOrder[i] \in ids
         THEN << [id |-> AgentOrder[i], name |-> AgentOrder[i]] >>
         ELSE << >>) \o SortedAgents(ids, i + 1)

tableData(hd) ==
   IF hd.metrics = {} /\ hd.metric_definitions = << >>
   THEN [agents |-> << >>, metricDefs |-> << >>,
         valueMap |-> EmptyMap, originalValueMap |-> EmptyMap]
   ELSE [agents |-> SortedAgents({e.agent_id : e \in hd.metrics}, 1),
         metricDefs |-> hd.metric_definitions,
         valueMap |-> [k \in {<< e.agent_id, e.metric_key >> : e \in hd.metrics} |->
                         CHOOSE e \in hd.metrics :
                            e.agent_id = k[1] /\ e.metric_key = k[2]],
         originalValueMap |-> [i \in {e.id : e \in hd.metrics} |->
                         LET e == CHOOSE e \in hd.metrics : e.id = i
                         IN IF IsTextType(e.data_type) THEN e.value_text
                            ELSE e.value_numeric]]

\* ------------------------------------------------------------------------
\* aggregates: live totals, pending edits included
\* ------------------------------------------------------------------------
RECURSIVE Gcd(_, _)
Gcd(a, b) == IF b = 0 THEN a ELSE Gcd(b, a % b)

\* a JavaScript number that is the quotient n / d, kept as a reduced fraction
Quotient(n, d) ==
   LET g == Gcd(n, d) IN IF g = 0 THEN [n |-> n, d |-> d] ELSE [n |-> n \div g, d |-> d \div g]

value_numeric_of(update) ==
   IF "value_numeric" \in DOMAIN update THEN update.value_numeric ELSE Undefined

value_text_of(update) ==
   IF "value_text" \in DOMAIN update THEN update.value_text ELSE Undefined

\* the loop with edited?.value_numeric ?? entry.value_numeric as the cell's value
RECURSIVE AggregateLoop_FallsBack(_, _, _, _, _)
AggregateLoop_FallsBack(td, edited, key, i, acc) ==
   IF i > Len(td.agents) THEN acc
   ELSE LET k == << td.agents[i].id, key >>
            hasEntry == k \in DOMAIN td.valueMap
            entry == td.valueMap[k]
            step ==
               IF hasEntry /\ entry.id \in DOMAIN edited
                  /\ value_numeric_of(edited[entry.id]) # Undefined
               THEN [total |-> acc.total + value_numeric_of(edited[entry.id]).v,
                     count |-> acc.count + 1]
               ELSE IF hasEntry /\ entry.value_numeric # Undefined
                    THEN [total |-> acc.total + entry.value_numeric.v,
                          count |-> acc.count + 1]
                    ELSE acc
        IN AggregateLoop_FallsBack(td, edited, key, i + 1, step)

\* the inner loop over tableData.agents: running total and count of one metric
RECURSIVE AggregateLoop(_, _, _, _, _)
AggregateLoop(td, edited, key, i, acc) ==
   IF i > Len(td.agents) THEN acc
   ELSE LET k == << td.agents[i].id, key >>
            hasEntry == k \in DOMAIN td.valueMap
            entry == td.valueMap[k]
            step ==
               IF hasEntry /\ entry.id \in DOMAIN edited
               THEN IF value_numeric_of(edited[entry.id]) # Undefined
                    THEN [total |-> acc.total + value_numeric_of(edited[entry.id]).v,
                          count |-> acc.count + 1]
                    ELSE acc
               ELSE IF hasEntry /\ entry.value_numeric # Undefined
                    THEN [total |-> acc.total + entry.value_numeric.v,
                          count |-> acc.count + 1]
                    ELSE acc
        IN AggregateLoop(td, edited, key, i + 1, step)

\* aggregates without the averaging of percentages
aggregates_SumOnly(td, edited) ==
   LET numericDefs == {j \in 1..Len(td.metricDefs) :
                          ~ IsTextType(td.metricDefs[j].data_type)}
   IN [key \in {td.metricDefs[j].key : j \in numericDefs} |->
         Quotient(AggregateLoop(td, edited, key, 1, [total |-> 0, count |-> 0]).total, 1)]

aggregates(td, edited) ==
   LET numericDefs == {j \in 1..Len(td.metricDefs) :
                          ~ IsTextType(td.metricDefs[j].data_type)}
       tc(key) == AggregateLoop(td, edited, key, 1, [total |-> 0, count |-> 0])
       typeOf(key) == td.metricDefs[CHOOSE j \in numericDefs :
                                       td.metricDefs[j].key = key].data_type
   IN [key \in {td.metricDefs[j].key : j \in numericDefs} |->
         IF typeOf(key) = "percentage" /\ tc(key).count > 0
         THEN Quotient(tc(key).total, tc(key).count)
         ELSE Quotient(tc(key).total, 1)]

\* ------------------------------------------------------------------------
\* handleEdit / handleUndo on (editedValues, undoStack)
\* ------------------------------------------------------------------------
WrapValue(isNumeric, v) ==
   IF isNumeric THEN [value_numeric |-> v] ELSE [value_text |-> v]

\* handleEdit that logs no action for an edit that changes no entry
handleEdit_SkipsNoOp(edited, stack, metricEntry, newValue) ==
   LET isNumeric == ~ IsTextType(metricEntry.data_type)
       update == WrapValue(isNumeric, newValue)
       originalValue == IF isNumeric THEN metricEntry.value_numeric
                        ELSE metricEntry.value_text
       action == [metricId |-> metricEntry.id,
                  oldValue |-> IF metricEntry.id \in DOMAIN edited
                               THEN edited[metricEntry.id]
                               ELSE IF originalValue # Undefined
                                    THEN WrapValue(isNumeric, originalValue)
                                    ELSE Undefined,
                  newValue |-> IF newValue # originalValue THEN update ELSE Undefined]
       newEdited == IF newValue = originalValue
                    THEN MapDelete(edited, metricEntry.id)
                    ELSE MapSet(edited, metricEntry.id, update)
   IN [editedValues |-> newEdited,
       undoStack |-> IF newEdited = edited THEN stack ELSE Append(stack, action)]

\* handleEdit that keeps an entry also for a value equal to the original
handleEdit_NeverRemoves(edited, stack, metricEntry, newValue) ==
   LET isNumeric == ~ IsTextType(metricEntry.data_type)
       update == WrapValue(isNumeric, newValue)
       originalValue == IF isNumeric THEN metricEntry.value_numeric
                        ELSE metricEntry.value_text
       action == [metricId |-> metricEntry.id,
                  oldValue |-> IF metricEntry.id \in DOMAIN edited
                               THEN edited[metricEntry.id]
                               ELSE IF originalValue # Undefined
                                    THEN WrapValue(isNumeric, originalValue)
                                    ELSE Undefined,
                  newValue |-> IF newValue # originalValue THEN update ELSE Undefined]
   IN [editedValues |-> MapSet(edited, metricEntry.id, update),
       undoStack |-> Append(stack, action)]

handleEdit(edited, stack, metricEntry, newValue) ==
   LET isNumeric == ~ IsTextType(metricEntry.data_type)
       update == WrapValue(isNumeric, newValue)
       originalValue == IF isNumeric THEN metricEntry.value_numeric
                        ELSE metricEntry.value_text
       action == [metricId |-> metricEntry.id,
                  oldValue |-> IF metricEntry.id \in DOMAIN edited
                               THEN edited[metricEntry.id]
                               ELSE IF originalValue # Undefined
                                    THEN WrapValue(isNumeric, originalValue)
                                    ELSE Undefined,
                  newValue |-> IF newValue # originalValue THEN update ELSE Undefined]
   IN [editedValues |-> IF newValue = originalValue
                        THEN MapDelete(edited, metricEntry.id)
                        ELSE MapSet(edited, metricEntry.id, update),
       undoStack |-> Append(stack, action)]

\* handleUndo that takes the oldest action of the stack
handleUndo_OldestFirst(edited, stack) ==
   IF Len(stack) = 0 THEN [editedValues |-> edited, undoStack |-> stack]
   ELSE LET lastAction == stack[1]
        IN [editedValues |-> IF lastAction.oldValue = Undefined
                             THEN MapDelete(edited, lastAction.metricId)
                             ELSE MapSet(edited, lastAction.metricId, lastAction.oldValue),
            undoStack |-> SubSeq(stack, 2, Len(stack))]

\* handleUndo that drops the pending entry instead of restoring oldValue
handleUndo_AlwaysDelete(edited, stack) ==
   IF Len(stack) = 0 THEN [editedValues |-> edited, undoStack |-> stack]
   ELSE [editedValues |-> MapDelete(edited, stack[Len(stack)].metricId),
         undoStack |-> SubSeq(stack, 1, Len(stack) - 1)]

handleUndo(edited, stack) ==
   IF Len(stack) = 0 THEN [editedValues |-> edited, undoStack |-> stack]
   ELSE LET lastAction == stack[Len(stack)]
        IN [editedValues |-> IF lastAction.oldValue = Undefined
                             THEN MapDelete(edited, lastAction.metricId)
                             ELSE MapSet(edited, lastAction.metricId, lastAction.oldValue),
            undoStack |-> SubSeq(stack, 1, Len(stack) - 1)]

\* ------------------------------------------------------------------------
\* handleKeyNav: the cell a navigation key moves to
\* ------------------------------------------------------------------------
Max(a, b) == IF a >= b THEN a ELSE b
Min(a, b) == IF a <= b THEN a ELSE b

Directions == {"up", "down", "left", "right", "next", "prev"}

\* handleKeyNav without Math.max / Math.min on the row index
KeyNavTarget_Unclamped(numAgents, numMetrics, agentIndex, metricIndex, direction) ==
   CASE direction = "up" ->
          [agentIndex |-> agentIndex - 1, metricIndex |-> metricIndex]
     [] direction = "down" ->
          [agentIndex |-> agentIndex + 1, metricIndex |-> metricIndex]
     [] direction \in {"left", "prev"} ->
          IF metricIndex > 0
          THEN [agentIndex |-> agentIndex, metricIndex |-> metricIndex - 1]
          ELSE IF agentIndex > 0
               THEN [agentIndex |-> agentIndex - 1, metricIndex |-> numMetrics - 1]
               ELSE [agentIndex |-> agentIndex, metricIndex |-> metricIndex]
     [] direction \in {"right", "next"} ->
          IF metricIndex < numMetrics - 1
          THEN [agentIndex |-> agentIndex, metricIndex |-> metricIndex + 1]
          ELSE IF agentIndex < numAgents - 1
               THEN [agentIndex |-> agentIndex + 1, metricIndex |-> 0]
               ELSE [agentIndex |-> agentIndex, metricIndex |-> metricIndex]

\* indices are 0-based as in the source
KeyNavTarget(numAgents, numMetrics, agentIndex, metricIndex, direction) ==
   CASE direction = "up" ->
          [agentIndex |-> Max(0, agentIndex - 1), metricIndex |-> metricIndex]
     [] direction = "down" ->
          [agentIndex |-> Min(numAgents - 1, agentIndex + 1), metricIndex |-> metricIndex]
     [] direction \in {"left", "prev"} ->
          IF metricIndex > 0
          THEN [agentIndex |-> agentIndex, metricIndex |-> metricIndex - 1]
          ELSE IF agentIndex > 0
               THEN [agentIndex |-> agentIndex - 1, metricIndex |-> numMetrics - 1]
               ELSE [agentIndex |-> agentIndex, metricIndex |-> metricIndex]
     [] direction \in {"right", "next"} ->
          IF metricIndex < numMetrics - 1
          THEN [agentIndex |-> agentIndex, metricIndex |-> metricIndex + 1]
          ELSE IF agentIndex < numAgents - 1
               THEN [agentIndex |-> agentIndex + 1, metricIndex |-> 0]
               ELSE [agentIndex |-> agentIndex, metricIndex |-> metricIndex]

\* cellRefs: the positions that render an EditableCell (the cell has an entry)
cellRefs(td) ==
   {p \in [agentIndex : 0..(Len(td.agents) - 1), metricIndex : 0..(Len(td.metricDefs) - 1)] :
      << td.agents[p.agentIndex + 1].id, td.metricDefs[p.metricIndex + 1].key >>
         \in DOMAIN td.valueMap}

\* the focused cell after handleKeyNav: focus moves only when the target has a ref
handleKeyNav(td, focus, direction) ==
   LET target == KeyNavTarget(Len(td.agents), Len(td.metricDefs),
                              focus.agentIndex, focus.metricIndex, direction)
   IN IF target \in cellRefs(td) THEN target ELSE focus

\* ------------------------------------------------------------------------
\* State of the HistoricMetrics page, the server and the requests in flight
\* ------------------------------------------------------------------------
VARIABLES
   selectedAccountId, selectedDate, selectedTeamLeaderId,  \* filter state
   historicData, loading, error,                           \* data state
   editedValues, saving, saveSuccess, justSavedIds,        \* edit state
   undoStack,                                              \* undo history
   focusedCell, localValue,       \* the input holding the focus and its text
   db,                            \* the values the server stores
   fetches,                       \* getHistoricMetrics calls of the load effect in flight
   saves,                         \* handleSave invocations in flight
   justSavedTimers, successTimers, \* pending setTimeout callbacks of handleSave
   selections, saveCalls, edits,  \* filter changes, handleSave and handleEdit calls so far
   preEdit,                       \* history: editedValues before each logged edit
   cancelled                      \* history: handleCancel was the last to set editedValues

vars == << selectedAccountId, selectedDate, selectedTeamLeaderId, historicData,
           loading, error, editedValues, saving, saveSuccess, justSavedIds,
           undoStack, focusedCell, localValue, db, fetches, saves,
           justSavedTimers, successTimers, selections, saveCalls, edits, preEdit, cancelled >>

filterVars == << selectedAccountId, selectedDate, selectedTeamLeaderId >>
cellVars == << focusedCell, localValue >>
timers == << justSavedTimers, successTimers >>
counters == << selections, saveCalls, edits >>

NoError == "null"
NoCell == [agentIndex |-> -1, metricIndex |-> -1]

CurrentSelection == Selection(selectedAccountId, selectedDate, selectedTeamLeaderId)

RemoveAt(seq, i) == SubSeq(seq, 1, i - 1) \o SubSeq(seq, i + 1, Len(seq))

Init ==
   /\ selectedAccountId = ""
   /\ selectedDate = "d1"
   /\ selectedTeamLeaderId = ""
   /\ historicData = [for |-> NoSelection, metric_definitions |-> << >>, metrics |-> {}]
   /\ loading = FALSE
   /\ error = NoError
   /\ editedValues = EmptyMap
   /\ saving = FALSE
   /\ saveSuccess = FALSE
   /\ justSavedIds = {}
   /\ undoStack = << >>
   /\ focusedCell = NoCell
   /\ localValue = ""
   /\ db = InitialDb
   /\ fetches = EmptyBag
   /\ saves = << >>
   /\ justSavedTimers = 0
   /\ successTimers = 0
   /\ selections = 0
   /\ saveCalls = 0
   /\ edits = 0
   /\ preEdit = << >>
   /\ cancelled = FALSE

\* the table (cells, Undo, Cancel and Save buttons) is rendered
TableRendered == ~ loading /\ Len(tableData(historicData).agents) > 0

\* ------------------------------------------------------------------------
\* Filter changes and the effects they trigger
\* ------------------------------------------------------------------------
\* the "load historic data" effect returns early on an empty account or date
LoadEffectRuns(account, date) == account # "" /\ date # ""

\* what the load effect sets before it issues its request
LoadEffectReset ==
   /\ loading' = TRUE
   /\ error' = NoError
   /\ editedValues' = EmptyMap
   /\ saveSuccess' = FALSE
   /\ undoStack' = << >>
   /\ justSavedIds' = {}
   /\ preEdit' = << >>
   /\ cancelled' = FALSE

LoadEffectSkipped ==
   UNCHANGED << loading, error, editedValues, saveSuccess, undoStack, justSavedIds, preEdit, cancelled >>

\* the account <select>: the team-leader effect resets the team leader, the
\* load effect runs for the render with the old team leader and, when the
\* reset changed it, again for the render with the empty one
SelectAccount(a) ==
   /\ a # selectedAccountId
   /\ selections < MaxSelections
   /\ selections' = selections + 1
   /\ LET requests ==
             IF ~ LoadEffectRuns(a, selectedDate) THEN EmptyBag
             ELSE IF selectedTeamLeaderId # ""
                  THEN SetToBag({Selection(a, selectedDate, selectedTeamLeaderId),
                                 Selection(a, selectedDate, "")})
                  ELSE SetToBag({Selection(a, selectedDate, "")})
      IN fetches' = fetches (+) requests
   /\ selectedAccountId' = a
   /\ selectedTeamLeaderId' = ""
   /\ IF LoadEffectRuns(a, selectedDate) THEN LoadEffectReset ELSE LoadEffectSkipped
   /\ UNCHANGED << selectedDate, historicData, saving, db, saves, saveCalls, edits, cellVars, timers >>

\* the date <input>
SelectDate(d) ==
   /\ d # selectedDate
   /\ selections < MaxSelections
   /\ selections' = selections + 1
   /\ selectedDate' = d
   /\ IF LoadEffectRuns(selectedAccountId, d)
      THEN /\ fetches' = fetches (+)
                 SetToBag({Selection(selectedAccountId, d, selectedTeamLeaderId)})
           /\ LoadEffectReset
      ELSE /\ fetches' = fetches
           /\ LoadEffectSkipped
   /\ UNCHANGED << selectedAccountId, selectedTeamLeaderId, historicData, saving,
                   db, saves, saveCalls, edits, cellVars, timers >>

\* the team-leader <select>, disabled while no account is selected
SelectTeamLeader(t) ==
   /\ selectedAccountId # ""
   /\ selections < MaxSelections
   /\ selections' = selections + 1
   /\ t # selectedTeamLeaderId
   /\ selectedTeamLeaderId' = t
   /\ IF LoadEffectRuns(selectedAccountId, selectedDate)
      THEN /\ fetches' = fetches (+)
                 SetToBag({Selection(selectedAccountId, selectedDate, t)})
           /\ LoadEffectReset
      ELSE /\ fetches' = fetches
           /\ LoadEffectSkipped
   /\ UNCHANGED << selectedAccountId, selectedDate, historicData, saving,
                   db, saves, saveCalls, edits, cellVars, timers >>

\* .then(setHistoricData) ... .finally(() => setLoading(false))
FetchResolve(request) ==
   /\ BagIn(request, fetches)
   /\ historicData' = getHistoricMetrics(request, db)
   /\ loading' = FALSE
   /\ fetches' = fetches (-) SetToBag({request})
   /\ UNCHANGED << filterVars, error, editedValues, saving, saveSuccess, justSavedIds,
                   undoStack, db, saves, counters, preEdit, cancelled, cellVars, timers >>

\* .catch((err) => setError(err.message)) ... .finally(() => setLoading(false))
FetchReject(request) ==
   /\ BagIn(request, fetches)
   /\ error' = "fetch failed"
   /\ loading' = FALSE
   /\ fetches' = fetches (-) SetToBag({request})
   /\ UNCHANGED << filterVars, historicData, editedValues, saving, saveSuccess,
                   justSavedIds, undoStack, db, saves, counters, preEdit, cancelled, cellVars, timers >>

\* ------------------------------------------------------------------------
\* EditableCell: the text of an input and the value it commits
\* ------------------------------------------------------------------------
\* String(n) and parseFloat(s) on the numbers and texts in use
NumberTexts == { << 10, "10" >>, << 15, "15" >>, << 20, "20" >> }

StringOf(v) ==
   CASE v = Undefined -> ""
     [] v # Undefined /\ v.t = "number" -> (CHOOSE nt \in NumberTexts : nt[1] = v.v)[2]
     [] OTHER -> v.v

\* NaN is the only non-number parseFloat returns
NaN == [t |-> "NaN"]

parseFloat(text) ==
   IF \E nt \in NumberTexts : nt[2] = text
   THEN Num((CHOOSE nt \in NumberTexts : nt[2] = text)[1])
   ELSE NaN

\* commitValue passing the text of a numeric input on without parsing it
commitValue_NoParse(dataType, text) ==
   IF text = "" THEN Undefined ELSE Str(text)

\* the value commitValue passes to onChange
commitValue(dataType, text) ==
   IF IsTextType(dataType)
   THEN IF text = "" THEN Undefined ELSE Str(text)
   ELSE IF parseFloat(text) = NaN THEN Undefined ELSE parseFloat(text)

\* what a user types into an input of type number / text; the texts of the
\* fetched values come from String(value)
NumericTexts == {"15", "abc"}
TextTexts == {"", "y"}

\* the value prop of the cell of entry under metric definition m
currentValue(entry, m, edited) ==
   IF entry.id \in DOMAIN edited
   THEN IF value_numeric_of(edited[entry.id]) # Undefined
        THEN value_numeric_of(edited[entry.id])
        ELSE value_text_of(edited[entry.id])
   ELSE IF IsTextType(m.data_type) THEN entry.value_text ELSE entry.value_numeric

\* ------------------------------------------------------------------------
\* Editing
\* ------------------------------------------------------------------------
\* the entry rendered at a position that has a ref
EntryAt(td, p) ==
   td.valueMap[<< td.agents[p.agentIndex + 1].id, td.metricDefs[p.metricIndex + 1].key >>]

MetricDefAt(td, p) == td.metricDefs[p.metricIndex + 1]

DisplayedValue(td, edited, p) == currentValue(EntryAt(td, p), MetricDefAt(td, p), edited)

\* useEffect(() => setLocalValue(...), [value]): the text follows a changed value
SyncText(oldValue, newValue, text) ==
   IF newValue # oldValue THEN StringOf(newValue) ELSE text

\* the text of the focused input once editedValues has become edited
LocalValueSync(edited) ==
   IF focusedCell = NoCell THEN localValue
   ELSE LET td == tableData(historicData)
        IN SyncText(DisplayedValue(td, editedValues, focusedCell),
                    DisplayedValue(td, edited, focusedCell), localValue)

\* the values commitValue can pass to onChange for a cell of this data type
CommitInputs(data_type) == IF IsTextType(data_type) THEN TextInputs ELSE NumericInputs

\* an EditableCell commits v: onChange={(v) => handleEdit(entry, v)}
CommitCell(p, v) ==
   /\ TableRendered
   /\ focusedCell = NoCell
   /\ edits < MaxCommits
   /\ edits' = edits + 1
   /\ cancelled' = FALSE
   /\ LET td == tableData(historicData)
      IN /\ p \in cellRefs(td)
         /\ v \in CommitInputs(td.metricDefs[p.metricIndex + 1].data_type)
         /\ LET r == handleEdit(editedValues, undoStack, EntryAt(td, p), v)
            IN /\ editedValues' = r.editedValues
               /\ undoStack' = r.undoStack
   /\ UNCHANGED << filterVars, historicData, loading, error, saving, saveSuccess,
                   justSavedIds, db, fetches, saves, selections, saveCalls, preEdit,
                   cellVars, timers >>

\* Ctrl+Z or the Undo button
Undo ==
   /\ LET r == handleUndo(editedValues, undoStack)
      IN /\ editedValues' = r.editedValues
         /\ undoStack' = r.undoStack
         /\ localValue' = LocalValueSync(r.editedValues)
   /\ preEdit' = IF Len(preEdit) = 0 \/ Len(undoStack) = 0 THEN preEdit
                 ELSE SubSeq(preEdit, 1, Len(preEdit) - 1)
   /\ cancelled' = (Len(undoStack) = 0 /\ cancelled)
   /\ UNCHANGED << filterVars, historicData, loading, error, saving, saveSuccess,
                   justSavedIds, db, fetches, saves, counters, focusedCell, timers >>

\* handleCancel that clears the pending edits and keeps the undo history
handleCancel_KeepsUndoStack ==
   /\ TableRendered
   /\ focusedCell = NoCell
   /\ Cardinality(DOMAIN editedValues) # 0
   /\ ~ saving
   /\ editedValues' = EmptyMap
   /\ preEdit' = << >>
   /\ cancelled' = TRUE
   /\ UNCHANGED << filterVars, historicData, loading, error, saving, saveSuccess,
                   justSavedIds, undoStack, db, fetches, saves, counters, cellVars, timers >>

\* the Cancel button, disabled while nothing is edited or a save is running
handleCancel ==
   /\ TableRendered
   /\ focusedCell = NoCell
   /\ Cardinality(DOMAIN editedValues) # 0
   /\ ~ saving
   /\ editedValues' = EmptyMap
   /\ undoStack' = << >>
   /\ preEdit' = << >>
   /\ cancelled' = TRUE
   /\ UNCHANGED << filterVars, historicData, loading, error, saving, saveSuccess,
                   justSavedIds, db, fetches, saves, counters, cellVars, timers >>

\* ------------------------------------------------------------------------
\* Saving
\* ------------------------------------------------------------------------
BulkUpdateEntry(id, update) ==
   IF "value_numeric" \in DOMAIN update
   THEN [id |-> id, value_numeric |-> update.value_numeric]
   ELSE [id |-> id, value_text |-> update.value_text]

\* handleSave leaving the cleared values out of the batch
handleSave_SkipsCleared ==
   /\ Cardinality(DOMAIN editedValues) # 0
   /\ saveCalls < MaxSaves
   /\ saveCalls' = saveCalls + 1
   /\ saving' = TRUE
   /\ saveSuccess' = FALSE
   /\ error' = NoError
   /\ saves' = Append(saves,
         [pc |-> "bulkUpdate",
          savedIds |-> DOMAIN editedValues,
          updates |-> {BulkUpdateEntry(i, editedValues[i]) :
                         i \in {k \in DOMAIN editedValues :
                                  UpdateValue(editedValues[k]) # Undefined}},
          for |-> CurrentSelection])
   /\ UNCHANGED << filterVars, historicData, loading, editedValues, justSavedIds,
                   undoStack, db, fetches, selections, edits, preEdit, cancelled, cellVars, timers >>

\* handleSave up to its first await
handleSave ==
   /\ Cardinality(DOMAIN editedValues) # 0
   /\ saveCalls < MaxSaves
   /\ saveCalls' = saveCalls + 1
   /\ saving' = TRUE
   /\ saveSuccess' = FALSE
   /\ error' = NoError
   /\ saves' = Append(saves,
         [pc |-> "bulkUpdate",
          savedIds |-> DOMAIN editedValues,
          updates |-> {BulkUpdateEntry(i, editedValues[i]) : i \in DOMAIN editedValues},
          for |-> CurrentSelection])
   /\ UNCHANGED << filterVars, historicData, loading, editedValues, justSavedIds,
                   undoStack, db, fetches, selections, edits, preEdit, cancelled, cellVars, timers >>

\* disabled={editedValues.size === 0 || saving}
SaveButtonEnabled == Cardinality(DOMAIN editedValues) # 0 /\ ~ saving

\* CtrlSGuard without the test of the saving flag
CtrlSGuard_IgnoresSaving == Cardinality(DOMAIN editedValues) > 0

\* if (editedValues.size > 0 && !saving)
CtrlSGuard == Cardinality(DOMAIN editedValues) > 0 /\ ~ saving

SaveButton ==
   /\ TableRendered
   /\ SaveButtonEnabled
   /\ handleSave

CtrlS ==
   /\ CtrlSGuard
   /\ handleSave

\* BulkUpdateResolve marking the keys edited when the response arrives
BulkUpdateResolve_CurrentKeys(i) ==
   /\ i \in 1..Len(saves)
   /\ saves[i].pc = "bulkUpdate"
   /\ db' = bulkUpdateMetricValues(saves[i].updates, db)
   /\ saveSuccess' = TRUE
   /\ editedValues' = EmptyMap
   /\ undoStack' = << >>
   /\ preEdit' = << >>
   /\ cancelled' = FALSE
   /\ justSavedIds' = DOMAIN editedValues
   /\ justSavedTimers' = justSavedTimers + 1
   /\ saves' = [saves EXCEPT ![i].pc = "refetch"]
   /\ UNCHANGED << filterVars, historicData, loading, error, saving, fetches, counters,
                   cellVars, successTimers >>

\* the Persistence Sink accepted the batch: handleSave up to its second await
BulkUpdateResolve(i) ==
   /\ i \in 1..Len(saves)
   /\ saves[i].pc = "bulkUpdate"
   /\ db' = bulkUpdateMetricValues(saves[i].updates, db)
   /\ saveSuccess' = TRUE
   /\ editedValues' = EmptyMap
   /\ undoStack' = << >>
   /\ preEdit' = << >>
   /\ cancelled' = FALSE
   /\ justSavedIds' = saves[i].savedIds
   /\ justSavedTimers' = justSavedTimers + 1
   /\ saves' = [saves EXCEPT ![i].pc = "refetch"]
   /\ UNCHANGED << filterVars, historicData, loading, error, saving, fetches, counters,
                   cellVars, successTimers >>

\* BulkUpdateReject with a catch block that also discards the edits
BulkUpdateReject_Discarding(i) ==
   /\ i \in 1..Len(saves)
   /\ saves[i].pc = "bulkUpdate"
   /\ error' = "save failed"
   /\ editedValues' = EmptyMap
   /\ undoStack' = << >>
   /\ saving' = FALSE
   /\ saves' = RemoveAt(saves, i)
   /\ UNCHANGED << filterVars, historicData, loading, saveSuccess,
                   justSavedIds, db, fetches, counters, preEdit, cancelled, cellVars, timers >>

\* the Persistence Sink threw: catch and finally
BulkUpdateReject(i) ==
   /\ i \in 1..Len(saves)
   /\ saves[i].pc = "bulkUpdate"
   /\ error' = "save failed"
   /\ saving' = FALSE
   /\ saves' = RemoveAt(saves, i)
   /\ UNCHANGED << filterVars, historicData, loading, editedValues, saveSuccess,
                   justSavedIds, undoStack, db, fetches, counters, preEdit, cancelled, cellVars, timers >>

\* RefetchResolve that drops the response and keeps the snapshot it had
RefetchResolve_KeepsSnapshot(i) ==
   /\ i \in 1..Len(saves)
   /\ saves[i].pc = "refetch"
   /\ successTimers' = successTimers + 1
   /\ saving' = FALSE
   /\ saves' = RemoveAt(saves, i)
   /\ UNCHANGED << filterVars, historicData, loading, error, editedValues, saveSuccess,
                   justSavedIds, undoStack, db, fetches, counters, preEdit, cancelled,
                   cellVars, justSavedTimers >>

\* the re-fetch returned: setHistoricData(fresh), then finally
RefetchResolve(i) ==
   /\ i \in 1..Len(saves)
   /\ saves[i].pc = "refetch"
   /\ historicData' = getHistoricMetrics(saves[i].for, db)
   /\ successTimers' = successTimers + 1
   /\ saving' = FALSE
   /\ saves' = RemoveAt(saves, i)
   /\ UNCHANGED << filterVars, loading, error, editedValues, saveSuccess, justSavedIds,
                   undoStack, db, fetches, counters, preEdit, cancelled, cellVars, justSavedTimers >>

\* RefetchReject without the finally block: the saving flag stays set
RefetchReject_NoFinally(i) ==
   /\ i \in 1..Len(saves)
   /\ saves[i].pc = "refetch"
   /\ error' = "fetch failed"
   /\ saves' = RemoveAt(saves, i)
   /\ UNCHANGED << filterVars, historicData, loading, editedValues, saving, saveSuccess,
                   justSavedIds, undoStack, db, fetches, counters, preEdit, cancelled, cellVars, timers >>

\* the re-fetch threw: catch and finally
RefetchReject(i) ==
   /\ i \in 1..Len(saves)
   /\ saves[i].pc = "refetch"
   /\ error' = "fetch failed"
   /\ saving' = FALSE
   /\ saves' = RemoveAt(saves, i)
   /\ UNCHANGED << filterVars, historicData, loading, editedValues, saveSuccess,
                   justSavedIds, undoStack, db, fetches, counters, preEdit, cancelled, cellVars, timers >>

\* setTimeout(() => setJustSavedIds(new Set()), 2000) fires
JustSavedTimeout ==
   /\ justSavedTimers > 0
   /\ justSavedTimers' = justSavedTimers - 1
   /\ justSavedIds' = {}
   /\ UNCHANGED << filterVars, historicData, loading, error, editedValues, saving,
                   saveSuccess, undoStack, db, fetches, saves, counters, preEdit, cancelled,
                   cellVars, successTimers >>

\* setTimeout(() => setSaveSuccess(false), 3000) fires
SaveSuccessTimeout ==
   /\ successTimers > 0
   /\ successTimers' = successTimers - 1
   /\ saveSuccess' = FALSE
   /\ UNCHANGED << filterVars, historicData, loading, error, editedValues, saving,
                   justSavedIds, undoStack, db, fetches, saves, counters, preEdit, cancelled,
                   cellVars, justSavedTimers >>

\* ------------------------------------------------------------------------
\* The page
\* ------------------------------------------------------------------------
Positions == [agentIndex : 0..1, metricIndex : 0..1]

Requests == [account : Accounts \cup {""}, date : Dates \cup {""},
             teamLeader : TeamLeaders \cup {""}]

Next ==
   \/ \E a \in Accounts \cup {""} : SelectAccount(a)
   \/ \E d \in Dates \cup {""} : SelectDate(d)
   \/ \E t \in TeamLeaders \cup {""} : SelectTeamLeader(t)
   \/ \E request \in Requests : FetchResolve(request)
   \/ \E request \in Requests : FetchReject(request)
   \/ \E p \in Positions : \E v \in {Undefined, Num(10)} : CommitCell(p, v)
   \/ Undo
   \/ handleCancel
   \/ SaveButton
   \/ CtrlS
   \/ \E i \in 1..MaxSaves : BulkUpdateResolve(i)
   \/ \E i \in 1..MaxSaves : BulkUpdateReject(i)
   \/ \E i \in 1..MaxSaves : RefetchResolve(i)
   \/ \E i \in 1..MaxSaves : RefetchReject(i)
   \/ JustSavedTimeout
   \/ SaveSuccessTimeout

Spec == Init /\ [][Next]_vars

\* the page when every promise that handleSave awaits settles: the request
\* to the Persistence Sink and the re-fetch each resolve or reject
SpecFair ==
   /\ Spec
   /\ WF_vars(\E i \in 1..MaxSaves : BulkUpdateResolve(i) \/ BulkUpdateReject(i))
   /\ WF_vars(\E i \in 1..MaxSaves : RefetchResolve(i) \/ RefetchReject(i))

\* ------------------------------------------------------------------------
\* The grid at the level of its cells: focus, typing, keys and blur
\* ------------------------------------------------------------------------
TypedTexts(dataType) == IF IsTextType(dataType) THEN TextTexts ELSE NumericTexts

\* one commitValue() of the focused cell, run against the rendered state
FocusedCommit ==
   LET td == tableData(historicData)
   IN handleEdit(editedValues, undoStack, EntryAt(td, focusedCell),
                 commitValue(MetricDefAt(td, focusedCell).data_type, localValue))

\* a mouse click into the input at p: the input that had the focus blurs
\* (handleBlur commits it), then p takes the focus
FocusCell(p) ==
   /\ TableRendered
   /\ p \in cellRefs(tableData(historicData))
   /\ p # focusedCell
   /\ IF focusedCell = NoCell
      THEN UNCHANGED << editedValues, undoStack, preEdit, cancelled >>
      ELSE /\ edits < MaxEdits
           /\ editedValues' = FocusedCommit.editedValues
           /\ undoStack' = FocusedCommit.undoStack
           /\ preEdit' = Append(preEdit, editedValues)
           /\ cancelled' = FALSE
   /\ edits' = IF focusedCell = NoCell THEN edits ELSE edits + 1
   /\ focusedCell' = p
   /\ localValue' = StringOf(DisplayedValue(tableData(historicData), editedValues', p))
   /\ UNCHANGED << filterVars, historicData, loading, error, saving, saveSuccess,
                   justSavedIds, db, fetches, saves, selections, saveCalls, timers >>

\* onChange={(e) => setLocalValue(e.target.value)}
TypeText(text) ==
   /\ TableRendered
   /\ focusedCell # NoCell
   /\ text \in TypedTexts(MetricDefAt(tableData(historicData), focusedCell).data_type)
   /\ text # localValue
   /\ localValue' = text
   /\ UNCHANGED << filterVars, historicData, loading, error, editedValues, saving,
                   saveSuccess, justSavedIds, undoStack, focusedCell, db, fetches,
                   saves, counters, preEdit, cancelled, timers >>

\* handleBlur: the focus leaves the grid (a click outside the inputs)
BlurCell ==
   /\ TableRendered
   /\ focusedCell # NoCell
   /\ edits < MaxEdits
   /\ edits' = edits + 1
   /\ editedValues' = FocusedCommit.editedValues
   /\ undoStack' = FocusedCommit.undoStack
   /\ preEdit' = Append(preEdit, editedValues)
   /\ cancelled' = FALSE
   /\ focusedCell' = NoCell
   /\ localValue' = ""
   /\ UNCHANGED << filterVars, historicData, loading, error, saving, saveSuccess,
                   justSavedIds, db, fetches, saves, selections, saveCalls, timers >>

NavKeys == {"Tab", "Shift+Tab", "Enter", "ArrowUp", "ArrowDown", "ArrowLeft", "ArrowRight"}

KeyDirection(key) ==
   CASE key = "Tab" -> "next"
     [] key = "Shift+Tab" -> "prev"
     [] key = "Enter" -> "down"
     [] key = "ArrowUp" -> "up"
     [] key = "ArrowDown" -> "down"
     [] key = "ArrowLeft" -> "left"
     [] key = "ArrowRight" -> "right"

\* ArrowLeft / ArrowRight navigate only with the cursor at the start / end;
\* an input of type number has no selectionStart, so they never do there
KeyNavigates(key, dataType) ==
   key \in {"ArrowLeft", "ArrowRight"} => IsTextType(dataType)

\* handleKeyDown committing the value prop of the cell instead of its text
KeyDown_CommitsShownValue(key) ==
   /\ TableRendered
   /\ focusedCell # NoCell
   /\ key \in NavKeys
   /\ LET td == tableData(historicData)
          target == handleKeyNav(td, focusedCell, KeyDirection(key))
          moved == target # focusedCell
          shownCommit == handleEdit(editedValues, undoStack, EntryAt(td, focusedCell),
                                    DisplayedValue(td, editedValues, focusedCell))
      IN /\ KeyNavigates(key, MetricDefAt(td, focusedCell).data_type)
         /\ edits + (IF moved THEN 2 ELSE 1) <= MaxEdits
         /\ edits' = edits + (IF moved THEN 2 ELSE 1)
         /\ editedValues' = shownCommit.editedValues
         /\ undoStack' = IF moved
                         THEN Append(shownCommit.undoStack,
                                     shownCommit.undoStack[Len(shownCommit.undoStack)])
                         ELSE shownCommit.undoStack
         /\ preEdit' = IF moved THEN preEdit \o << editedValues, editedValues >>
                       ELSE Append(preEdit, editedValues)
         /\ cancelled' = FALSE
         /\ focusedCell' = target
         /\ localValue' =
               IF moved THEN StringOf(DisplayedValue(td, editedValues', target))
               ELSE LocalValueSync(editedValues')
   /\ UNCHANGED << filterVars, historicData, loading, error, saving, saveSuccess,
                   justSavedIds, db, fetches, saves, selections, saveCalls, timers >>

\* handleKeyDown for a navigation key: commitValue(), then onKeyNav(direction);
\* when the focus moves, the blur of the cell being left runs commitValue() again
\* from the same render
KeyDown(key) ==
   /\ TableRendered
   /\ focusedCell # NoCell
   /\ key \in NavKeys
   /\ LET td == tableData(historicData)
          target == handleKeyNav(td, focusedCell, KeyDirection(key))
          moved == target # focusedCell
      IN /\ KeyNavigates(key, MetricDefAt(td, focusedCell).data_type)
         /\ edits + (IF moved THEN 2 ELSE 1) <= MaxEdits
         /\ edits' = edits + (IF moved THEN 2 ELSE 1)
         /\ editedValues' = FocusedCommit.editedValues
         /\ undoStack' = IF moved
                         THEN Append(FocusedCommit.undoStack,
                                     FocusedCommit.undoStack[Len(FocusedCommit.undoStack)])
                         ELSE FocusedCommit.undoStack
         /\ preEdit' = IF moved THEN preEdit \o << editedValues, editedValues >>
                       ELSE Append(preEdit, editedValues)
         /\ cancelled' = FALSE
         /\ focusedCell' = target
         /\ localValue' =
               IF moved THEN StringOf(DisplayedValue(td, editedValues', target))
               ELSE LocalValueSync(editedValues')
   /\ UNCHANGED << filterVars, historicData, loading, error, saving, saveSuccess,
                   justSavedIds, db, fetches, saves, selections, saveCalls, timers >>

\* handleKeyDown for Escape: setLocalValue(String(value)), then input.blur(),
\* whose handleBlur commits the text of the current render
Escape ==
   /\ TableRendered
   /\ focusedCell # NoCell
   /\ edits < MaxEdits
   /\ edits' = edits + 1
   /\ editedValues' = FocusedCommit.editedValues
   /\ undoStack' = FocusedCommit.undoStack
   /\ preEdit' = Append(preEdit, editedValues)
   /\ cancelled' = FALSE
   /\ focusedCell' = NoCell
   /\ localValue' = ""
   /\ UNCHANGED << filterVars, historicData, loading, error, saving, saveSuccess,
                   justSavedIds, db, fetches, saves, selections, saveCalls, timers >>

\* snapshots the Data Source may have returned for account a1 on date d1
GridEntry(id, agent, key, type, value) ==
   HistoricMetricEntry([id |-> id, agent_id |-> agent, metric_key |-> key,
                        data_type |-> type], value)

GridSnapshots == {
   [for |-> Selection("a1", "d1", ""),
    metric_definitions |-> << [key |-> "dials", data_type |-> "integer"],
                              [key |-> "rate", data_type |-> "percentage"] >>,
    metrics |-> {GridEntry("g1", "alice", "dials", "integer", Num(10)),
                 GridEntry("g2", "alice", "rate", "percentage", Num(10)),
                 GridEntry("g3", "bob", "dials", "integer", Num(20)),
                 GridEntry("g4", "bob", "rate", "percentage", Undefined)}],
   [for |-> Selection("a1", "d1", ""),
    metric_definitions |-> << [key |-> "cost", data_type |-> "decimal"],
                              [key |-> "notes", data_type |-> "text"] >>,
    metrics |-> {GridEntry("g5", "alice", "cost", "decimal", Num(10)),
                 GridEntry("g6", "alice", "notes", "text", Str("x")),
                 GridEntry("g7", "bob", "cost", "decimal", Num(20))}],
   [for |-> Selection("a1", "d1", ""),
    metric_definitions |-> << [key |-> "talk", data_type |-> "duration"],
                              [key |-> "dials", data_type |-> "integer"] >>,
    metrics |-> {GridEntry("g8", "alice", "talk", "duration", Undefined),
                 GridEntry("g9", "alice", "dials", "integer", Num(15)),
                 GridEntry("g10", "bob", "dials", "integer", Undefined)}] }

InitGrid ==
   /\ selectedAccountId = "a1"
   /\ selectedDate = "d1"
   /\ selectedTeamLeaderId = ""
   /\ historicData \in GridSnapshots
   /\ loading = FALSE
   /\ error = NoError
   /\ editedValues = EmptyMap
   /\ saving = FALSE
   /\ saveSuccess = FALSE
   /\ justSavedIds = {}
   /\ undoStack = << >>
   /\ focusedCell = NoCell
   /\ localValue = ""
   /\ db = InitialDb
   /\ fetches = EmptyBag
   /\ saves = << >>
   /\ justSavedTimers = 0
   /\ successTimers = 0
   /\ selections = 1
   /\ saveCalls = 0
   /\ edits = 0
   /\ preEdit = << >>
   /\ cancelled = FALSE

NextGrid ==
   \/ \E p \in Positions : FocusCell(p)
   \/ \E text \in NumericTexts \cup TextTexts : TypeText(text)
   \/ BlurCell
   \/ \E key \in NavKeys : KeyDown(key)
   \/ Escape
   \/ Undo
   \/ handleCancel

SpecGrid == InitGrid /\ [][NextGrid]_vars

\* ------------------------------------------------------------------------
\* Keyboard navigation over grids of every size up to MaxAgents x MaxMetrics
\* ------------------------------------------------------------------------
\* metric definitions and record ids of the navigated grids; every cell has a
\* record, so every cell renders an input
NavMetricDefs == << [key |-> "m1", data_type |-> "integer"],
                    [key |-> "m2", data_type |-> "text"],
                    [key |-> "m3", data_type |-> "integer"],
                    [key |-> "m4", data_type |-> "text"] >>

NavIds == << << "n11", "n12", "n13", "n14" >>, << "n21", "n22", "n23", "n24" >>,
             << "n31", "n32", "n33", "n34" >>, << "n41", "n42", "n43", "n44" >> >>

NavSnapshot(numAgents, numMetrics) ==
   [for |-> Selection("a1", "d1", ""),
    metric_definitions |-> SubSeq(NavMetricDefs, 1, numMetrics),
    metrics |-> {GridEntry(NavIds[i][j], AgentOrder[i], NavMetricDefs[j].key,
                           NavMetricDefs[j].data_type, Undefined) :
                    i \in 1..numAgents, j \in 1..numMetrics}]

NavPositions == [agentIndex : 0..(MaxAgents - 1), metricIndex : 0..(MaxMetrics - 1)]

\* the first click into the grid: no input had the focus
ClickCell(p) == focusedCell = NoCell /\ FocusCell(p)

InitNav ==
   /\ selectedAccountId = "a1"
   /\ selectedDate = "d1"
   /\ selectedTeamLeaderId = ""
   /\ historicData \in {NavSnapshot(numAgents, numMetrics) :
                            numAgents \in 1..MaxAgents, numMetrics \in 1..MaxMetrics}
   /\ loading = FALSE
   /\ error = NoError
   /\ editedValues = EmptyMap
   /\ saving = FALSE
   /\ saveSuccess = FALSE
   /\ justSavedIds = {}
   /\ undoStack = << >>
   /\ focusedCell = NoCell
   /\ localValue = ""
   /\ db = InitialDb
   /\ fetches = EmptyBag
   /\ saves = << >>
   /\ justSavedTimers = 0
   /\ successTimers = 0
   /\ selections = 1
   /\ saveCalls = 0
   /\ edits = 0
   /\ preEdit = << >>
   /\ cancelled = FALSE

\* from the first click on, the focus moves by navigation keys only
NextNav ==
   \/ \E p \in NavPositions : ClickCell(p)
   \/ \E text \in NumericTexts \cup TextTexts : TypeText(text)
   \/ \E key \in NavKeys : KeyDown(key)

SpecNav == InitNav /\ [][NextNav]_vars


\* ------------------------------------------------------------------------
\* Properties
\* ------------------------------------------------------------------------
Last(seq) == seq[Len(seq)]
Front(seq) == SubSeq(seq, 1, Len(seq) - 1)

\* a step in which handleUndo pops an action
UndoStep == Undo /\ Len(undoStack) > 0

\* C1: undo is the inverse of applyEdit: n edits followed by n undos give back
\* the pendingEdits mapping held before them. Step by step: every undo that
\* pops an action restores the mapping that held when that action was logged,
\* also when the record had no pending entry and a defined original value.
C1_UndoInverse ==
   [][(UndoStep /\ Len(preEdit) > 0) => editedValues' = Last(preEdit)]_vars

\* C2: pendingEdits never holds an entry whose value equals the original
\* fetched value of its record.
C2_NoNoOpEntries ==
   \A i \in DOMAIN editedValues :
      i \in DOMAIN tableData(historicData).originalValueMap =>
         UpdateValue(editedValues[i]) # tableData(historicData).originalValueMap[i]

\* a step in which the catch block of handleSave handles a rejected batch
SinkFailureStep ==
   \E i \in 1..Len(saves) : saves[i].pc = "bulkUpdate" /\ saves' = RemoveAt(saves, i)

\* C3: when the Persistence Sink rejects the batch, the failure handler leaves
\* pendingEdits and undoStack as they were and records an error.
C3_SaveFailureKeepsEdits ==
   [][SinkFailureStep =>
        (editedValues' = editedValues /\ undoStack' = undoStack /\ error' # NoError)]_vars

C3_Witness ==
   /\ error = "save failed"
   /\ saves = << >>
   /\ ~ saving
   /\ Cardinality(DOMAIN editedValues) = 2
   /\ Len(undoStack) = 2

\* C4: right after the Persistence Sink accepts a batch, pendingEdits and
\* undoStack are empty and justSavedIds is the set of keys pendingEdits had
\* when save was invoked.
C4_SaveSuccessClears ==
   [][/\ Len(saves') = Len(saves) + 1 =>
            Last(saves').savedIds = DOMAIN editedValues
      /\ \A i \in 1..Len(saves) :
            (/\ saves[i].pc = "bulkUpdate"
             /\ Len(saves') = Len(saves)
             /\ saves'[i].pc = "refetch")
            => (/\ editedValues' = EmptyMap
                /\ undoStack' = << >>
                /\ justSavedIds' = saves[i].savedIds)]_vars

C4_Witness ==
   /\ Len(saves) = 1
   /\ saves[1].pc = "refetch"
   /\ saveSuccess
   /\ justSavedIds = saves[1].savedIds
   /\ Cardinality(justSavedIds) = 2
   /\ editedValues = EmptyMap
   /\ undoStack = << >>

\* C5: at most one save is in flight, and while one is in flight the saving
\* flag is set, so neither the Save button nor Ctrl+S starts a second one.
C5_SingleSaveInFlight ==
   /\ Len(saves) <= 1
   /\ Len(saves) = 1 => saving

\* a save is in flight, edits are pending again and a further save was possible
C5_Witness ==
   /\ Len(saves) = 1
   /\ Cardinality(DOMAIN editedValues) > 0
   /\ saveCalls < MaxSaves

\* C6: the response to a fetch issued for an older selection never replaces
\* the snapshot held for the current selection.
C6_NoStaleOverwrite ==
   [][\A request \in BagToSet(fetches) :
         (/\ request # CurrentSelection
          /\ historicData.for = CurrentSelection
          /\ fetches' = fetches (-) SetToBag({request}))
         => historicData' = historicData]_vars

\* C7: every change of the selection, also one to an empty account or date,
\* leaves pendingEdits and undoStack empty; so do a successful save and cancel.
C7_SelectionChangeClears ==
   [][/\ CurrentSelection' # CurrentSelection =>
            (editedValues' = EmptyMap /\ undoStack' = << >>)
      /\ (\E i \in 1..Len(saves) : BulkUpdateResolve(i)) =>
            (editedValues' = EmptyMap /\ undoStack' = << >>)
      /\ handleCancel => (editedValues' = EmptyMap /\ undoStack' = << >>)]_vars

\* the effective value of the cell (agent i, metric key): the pending edit's
\* value when the record has a pending edit, otherwise the fetched value
EffectiveValue(td, edited, i, key) ==
   LET k == << td.agents[i].id, key >>
   IN IF k \notin DOMAIN td.valueMap THEN Undefined
      ELSE IF td.valueMap[k].id \in DOMAIN edited
           THEN value_numeric_of(edited[td.valueMap[k].id])
           ELSE td.valueMap[k].value_numeric

\* the agents whose cell of this metric has a defined effective value
Included(td, edited, key) ==
   {i \in 1..Len(td.agents) : EffectiveValue(td, edited, i, key) # Undefined}

RECURSIVE SumOfEffective(_, _, _, _)
SumOfEffective(td, edited, key, agentSet) ==
   IF agentSet = {} THEN 0
   ELSE LET i == CHOOSE i \in agentSet : TRUE
        IN EffectiveValue(td, edited, i, key).v
              + SumOfEffective(td, edited, key, agentSet \ {i})

\* what the claim requires of the aggregate of one metric definition
AggregateAsSpecified(td, edited, agg, m) ==
   LET included == Included(td, edited, m.key)
       sum == SumOfEffective(td, edited, m.key, included)
       count == Cardinality(included)
   IN CASE IsTextType(m.data_type) -> m.key \notin DOMAIN agg
        [] m.data_type = "percentage" ->
              /\ m.key \in DOMAIN agg
              /\ count > 0 => agg[m.key].n * count = sum * agg[m.key].d
        [] OTHER ->
              /\ m.key \in DOMAIN agg
              /\ agg[m.key] = [n |-> sum, d |-> 1]

\* C8: the aggregate of a percentage metric is the mean of the included
\* effective values, that of an integer or decimal metric is their sum, and
\* text and duration metrics have no entry.
C8_AggregatePerKind ==
   LET td == tableData(historicData)
       differentKeys == \A j, k \in 1..Len(td.metricDefs) :
                           td.metricDefs[j].key = td.metricDefs[k].key => j = k
   IN differentKeys =>
         \A j \in 1..Len(td.metricDefs) :
            AggregateAsSpecified(td, editedValues, aggregates(td, editedValues),
                                 td.metricDefs[j])

\* a percentage metric averaged over two cells, one of them a pending edit
C8_Witness ==
   LET td == tableData(historicData)
   IN /\ "rate" \in DOMAIN aggregates(td, editedValues)
      /\ Cardinality(Included(td, editedValues, "rate")) = 2
      /\ "g4" \in DOMAIN editedValues
      /\ aggregates(td, editedValues)["rate"] = [n |-> 25, d |-> 2]

\* a step in which handleEdit logged an action
EditStep == Len(undoStack') > Len(undoStack)

\* the value the last logged edit proposed for its record
ProposedValue(td, action) ==
   IF action.newValue = Undefined THEN td.originalValueMap[action.metricId]
   ELSE UpdateValue(action.newValue)

\* C9: after applyEdit the aggregates are those of the snapshot with the
\* edited record's effective value replaced by the proposed value, and a
\* following undo returns every aggregate to its value before that edit.
C9_AggregateFollowsEditAndUndo ==
   [][LET td == tableData(historicData)
      IN /\ EditStep =>
               aggregates(td, editedValues') =
                  aggregates(td, MapSet(editedValues, Last(undoStack').metricId,
                        [value_numeric |-> ProposedValue(td, Last(undoStack'))]))
         /\ (UndoStep /\ Len(preEdit) > 0) =>
               aggregates(td, editedValues') = aggregates(td, Last(preEdit))]_vars

\* Dials is 30 again after the edit of Alice's 10 to 15 was undone
C9_Witness ==
   LET td == tableData(historicData)
   IN /\ edits = 1
      /\ undoStack = << >>
      /\ "g1" \in DOMAIN editedValues
      /\ "dials" \in DOMAIN aggregates(td, editedValues)
      /\ aggregates(td, editedValues)["dials"] = [n |-> 30, d |-> 1]

\* the focused cell is in the last metric column
InLastColumn(td) == focusedCell.metricIndex = Len(td.metricDefs) - 1
InLastRow(td) == focusedCell.agentIndex = Len(td.agents) - 1

\* C10: Tab from the last metric column of a row that is not the last moves
\* the focus to the first metric column of the next row; Tab from the last
\* cell of the last row leaves the focus where it is.
C10_AdvanceWraps ==
   [][KeyDown("Tab") =>
        LET td == tableData(historicData)
        IN /\ (InLastColumn(td) /\ ~ InLastRow(td)) =>
                 focusedCell' = [agentIndex |-> focusedCell.agentIndex + 1,
                                 metricIndex |-> 0]
           /\ (InLastColumn(td) /\ InLastRow(td)) => focusedCell' = focusedCell]_vars

\* a step of handleCancel
CancelStep == ~ cancelled /\ cancelled'

\* C11: cancel empties both pendingEdits and undoStack, whatever they held,
\* and changes neither the snapshot nor the saving flag, issues no request to
\* the Data Source or the Persistence Sink and leaves the stored values alone.
C11_CancelClearsOnly ==
   [][CancelStep =>
        (/\ editedValues' = EmptyMap
         /\ undoStack' = << >>
         /\ historicData' = historicData
         /\ saving' = saving
         /\ fetches' = fetches
         /\ saves' = saves
         /\ db' = db)]_vars

\* cancel has just run on a rendered table while a fetch was in flight
C11_Witness ==
   /\ cancelled
   /\ editedValues = EmptyMap
   /\ undoStack = << >>
   /\ fetches # EmptyBag
   /\ Len(tableData(historicData).agents) > 0

\* C12: the UndoAction logged by applyEdit records as its before-state the
\* record's entry in pendingEdits when there is one, and otherwise the
\* no-pending-edit marker (an undefined oldValue), whether or not the record's
\* original fetched value is defined.
C12_BeforeStateIsPendingOrMarker ==
   [][EditStep =>
        Last(undoStack').oldValue =
           IF Last(undoStack').metricId \in DOMAIN editedValues
           THEN editedValues[Last(undoStack').metricId]
           ELSE Undefined]_vars

\* the record of the focused cell and the value its input commits
CommittedRecord == EntryAt(tableData(historicData), focusedCell)

CommittedValue ==
   commitValue(MetricDefAt(tableData(historicData), focusedCell).data_type, localValue)

\* C13: after applyEdit(record, v), pendingEdits has no entry for the record
\* when v equals its original fetched value and maps the record id to v
\* otherwise; the entries of all other records are as before.
C13_EditSetsOrRemovesEntry ==
   [][EditStep =>
        LET id == CommittedRecord.id
            v == CommittedValue
            original == tableData(historicData).originalValueMap[id]
        IN /\ v = original => id \notin DOMAIN editedValues'
           /\ v # original =>
                 (id \in DOMAIN editedValues' /\ UpdateValue(editedValues'[id]) = v)
           /\ DOMAIN editedValues' \ {id} = DOMAIN editedValues \ {id}
           /\ \A i \in DOMAIN editedValues \ {id} : editedValues'[i] = editedValues[i]]_vars

\* Bob's absent Rate was edited to 15, and the second edit, back to the absent
\* original, has removed that entry
C13_Witness ==
   /\ edits = 2
   /\ Len(undoStack) = 2
   /\ undoStack[1].metricId = "g4"
   /\ undoStack[2] = [metricId |-> "g4", oldValue |-> [value_numeric |-> Num(15)],
                      newValue |-> Undefined]
   /\ editedValues = EmptyMap

\* C14: every applyEdit call appends exactly one UndoAction to the end of the
\* undo stack, also when the proposed value equals the original value or the
\* current pending value, and leaves the entries already on the stack as they
\* were, in their order. (edits counts the handleEdit calls.)
C14_EveryEditAppendsOne ==
   [][edits' # edits =>
        (/\ Len(undoStack') = Len(undoStack) + (edits' - edits)
         /\ SubSeq(undoStack', 1, Len(undoStack)) = undoStack
         /\ \A i \in (Len(undoStack) + 1)..Len(undoStack') :
               undoStack'[i].metricId = CommittedRecord.id)]_vars

\* three edits are logged: the second proposed the original value, the third
\* the value already pending
C14_Witness ==
   /\ edits = 3
   /\ Len(undoStack) = 3
   /\ undoStack[2].newValue = Undefined
   /\ undoStack[2].metricId \notin DOMAIN editedValues
   /\ undoStack[3].newValue # Undefined
   /\ undoStack[3].oldValue = undoStack[3].newValue

\* C15: undo on an empty stack changes nothing. On a non-empty stack it
\* removes exactly the most recent UndoAction and changes pendingEdits only at
\* that action's record id: the entry is removed when the recorded before-state
\* is the no-pending marker and set to the recorded before value otherwise.
C15_UndoPopsOne ==
   [][/\ handleUndo(editedValues, << >>) =
            [editedValues |-> editedValues, undoStack |-> << >>]
      /\ UndoStep =>
            LET action == Last(undoStack)
                id == action.metricId
            IN /\ undoStack' = Front(undoStack)
               /\ action.oldValue = Undefined => id \notin DOMAIN editedValues'
               /\ action.oldValue # Undefined =>
                     (id \in DOMAIN editedValues' /\ editedValues'[id] = action.oldValue)
               /\ DOMAIN editedValues' \ {id} = DOMAIN editedValues \ {id}
               /\ \A i \in DOMAIN editedValues \ {id} :
                     editedValues'[i] = editedValues[i]]_vars

\* undo has popped one of two logged actions and set its record to the recorded
\* before value: two entries are pending with one action on the stack, which
\* edits alone never produce
C15_Witness ==
   /\ edits = 2
   /\ Len(undoStack) = 1
   /\ Cardinality(DOMAIN editedValues) = 2

\* the sum of the defined values of a function from agents to values
RECURSIVE SumOfDefined(_)
SumOfDefined(f) ==
   IF DOMAIN f = {} THEN 0
   ELSE LET i == CHOOSE i \in DOMAIN f : TRUE
            rest == [j \in DOMAIN f \ {i} |-> f[j]]
        IN (IF f[i] = Undefined THEN 0 ELSE f[i].v) + SumOfDefined(rest)

CountOfDefined(f) == Cardinality({i \in DOMAIN f : f[i] # Undefined})

\* the metric definitions computeAggregates covers
NumericKeys(td) ==
   {td.metricDefs[j].key : j \in {j \in 1..Len(td.metricDefs) :
                                     ~ IsTextType(td.metricDefs[j].data_type)}}

\* the fetched value of the cell (agent i, metric key), if it has a record
OriginalValue(td, i, key) ==
   IF << td.agents[i].id, key >> \in DOMAIN td.valueMap
   THEN td.valueMap[<< td.agents[i].id, key >>].value_numeric
   ELSE Undefined

\* the value of a cell when a cleared pending edit falls back to the original
ValueWithFallback(td, edited, i, key) ==
   LET k == << td.agents[i].id, key >>
   IN IF /\ k \in DOMAIN td.valueMap
         /\ td.valueMap[k].id \in DOMAIN edited
         /\ value_numeric_of(edited[td.valueMap[k].id]) # Undefined
      THEN value_numeric_of(edited[td.valueMap[k].id])
      ELSE OriginalValue(td, i, key)

\* C16: in computeAggregates the effective value of a cell is the pending
\* edit's value if a pending edit is present and its value is defined,
\* otherwise the original fetched value if that is defined: a cell with a cleared
\* pending edit and a defined original value contributes its original value to
\* the sum and the count, and only cells with neither value are excluded.
C16_ClearedEditFallsBack ==
   LET td == tableData(historicData)
   IN \A key \in NumericKeys(td) :
         LET values == [i \in 1..Len(td.agents) |->
                           ValueWithFallback(td, editedValues, i, key)]
         IN AggregateLoop(td, editedValues, key, 1, [total |-> 0, count |-> 0]) =
               [total |-> SumOfDefined(values), count |-> CountOfDefined(values)]

\* C16 as amended: the effective value of a cell is the pending edit's value
\* whenever a pending edit is present, and the original fetched value only
\* when none is; a cell with a cleared pending edit contributes to neither the
\* sum nor the count, whatever its original value.
C16_ClearedEditExcludesCell ==
   LET td == tableData(historicData)
   IN \A key \in NumericKeys(td) :
         LET values == [i \in 1..Len(td.agents) |->
                           EffectiveValue(td, editedValues, i, key)]
         IN AggregateLoop(td, editedValues, key, 1, [total |-> 0, count |-> 0]) =
               [total |-> SumOfDefined(values), count |-> CountOfDefined(values)]

\* Alice's Dials (10) has a cleared pending edit: the total is Bob's 20 alone
C16_Witness ==
   LET td == tableData(historicData)
   IN /\ "g1" \in DOMAIN editedValues
      /\ editedValues["g1"] = [value_numeric |-> Undefined]
      /\ "g3" \notin DOMAIN editedValues
      /\ AggregateLoop(td, editedValues, "dials", 1, [total |-> 0, count |-> 0]) =
            [total |-> 20, count |-> 1]

\* C17: in every grid with at least one agent row and one metric column, for
\* every in-bounds position and every direction, the position handleKeyNav
\* computes is in bounds; up from the first row and down from the last row keep
\* the row, retreat from the first cell of the first row and advance from the
\* last cell of the last row keep the position.
C17_KeyNavStaysInBounds ==
   LET numAgents == Len(tableData(historicData).agents)
       numMetrics == Len(tableData(historicData).metricDefs)
   IN \A a \in 0..(numAgents - 1), m \in 0..(numMetrics - 1), d \in Directions :
         LET target == KeyNavTarget(numAgents, numMetrics, a, m, d)
         IN /\ target.agentIndex \in 0..(numAgents - 1)
            /\ target.metricIndex \in 0..(numMetrics - 1)
            /\ (d = "up" /\ a = 0) => target.agentIndex = 0
            /\ (d = "down" /\ a = numAgents - 1) => target.agentIndex = a
            /\ (d = "prev" /\ a = 0 /\ m = 0) =>
                  target = [agentIndex |-> a, metricIndex |-> m]
            /\ (d = "next" /\ a = numAgents - 1 /\ m = numMetrics - 1) =>
                  target = [agentIndex |-> a, metricIndex |-> m]

\* a navigation key was pressed in the last cell of the last row of the
\* largest grid: its input was committed and the focus is still there
C17_Witness ==
   /\ Len(tableData(historicData).agents) = MaxAgents
   /\ Len(tableData(historicData).metricDefs) = MaxMetrics
   /\ focusedCell = [agentIndex |-> MaxAgents - 1, metricIndex |-> MaxMetrics - 1]
   /\ edits = 1
   /\ Len(undoStack) = 1

\* a step of handleKeyDown for a navigation key: the focused cell commits and
\* the focus stays in the grid; it stays in the cell, or it moves and the blur
\* of the cell being left commits a second time (a click into another cell
\* commits once, blur and Escape leave the grid)
NavigationKeyStep ==
   /\ focusedCell # NoCell
   /\ focusedCell' # NoCell
   /\ edits' # edits
   /\ (focusedCell' = focusedCell \/ edits' = edits + 2)

\* C18: a navigation key handled by an editable cell (Tab, Shift+Tab, Enter,
\* an arrow key that navigates) commits the cell's in-progress input through
\* applyEdit in the same step that moves the focus: the record of the cell
\* being left gets the value of the text typed in it, and the edit is logged
\* for that record.
C18_NavigationCommitsTypedText ==
   [][NavigationKeyStep =>
        LET id == CommittedRecord.id
            v == CommittedValue
            original == tableData(historicData).originalValueMap[id]
        IN /\ v = original => id \notin DOMAIN editedValues'
           /\ v # original =>
                 (id \in DOMAIN editedValues' /\ UpdateValue(editedValues'[id]) = v)
           /\ Len(undoStack') > Len(undoStack)
           /\ Last(undoStack').metricId = id
           /\ Last(undoStack').newValue =
                 (IF v = original THEN Undefined ELSE editedValues'[id])]_vars

\* 15 was typed over Alice's Dials 10 and a key moved the focus to another
\* cell: the 15 is pending (the two equal actions are the key's two commits)
C18_Witness ==
   /\ edits = 2
   /\ Len(undoStack) = 2
   /\ undoStack[1] = undoStack[2]
   /\ undoStack[2] = [metricId |-> "g1", oldValue |-> [value_numeric |-> Num(10)],
                      newValue |-> [value_numeric |-> Num(15)]]
   /\ "g1" \in DOMAIN editedValues
   /\ editedValues["g1"] = [value_numeric |-> Num(15)]
   /\ focusedCell \notin {NoCell, [agentIndex |-> 0, metricIndex |-> 0]}

\* a step in which handleSave builds its batch and sends it
SaveInvoked == Len(saves') = Len(saves) + 1

\* C19: the batch save sends to the Persistence Sink has exactly one entry per
\* key of pendingEdits as it is when save is invoked, carrying that record id
\* and its pending value, and no entry for any other record.
C19_BatchIsPendingEdits ==
   [][SaveInvoked =>
        LET updates == Last(saves').updates
        IN /\ \A id \in DOMAIN editedValues :
                 /\ Cardinality({u \in updates : u.id = id}) = 1
                 /\ \A u \in updates :
                       u.id = id => /\ DOMAIN u = {"id"} \cup DOMAIN editedValues[id]
                                    /\ UpdateValue(u) = UpdateValue(editedValues[id])
           /\ \A u \in updates : u.id \in DOMAIN editedValues]_vars

\* a batch of two entries is in flight: the cleared value of r1 and the 10 of r3
C19_Witness ==
   /\ Len(saves) = 1
   /\ saves[1].pc = "bulkUpdate"
   /\ saves[1].updates = {[id |-> "r1", value_numeric |-> Undefined],
                           [id |-> "r3", value_numeric |-> Num(10)]}
   /\ DOMAIN editedValues = {"r1", "r3"}

\* the text of the focused input is not the text of a number
UnparsableInput ==
   /\ ~ IsTextType(MetricDefAt(tableData(historicData), focusedCell).data_type)
   /\ localValue \notin {nt[2] : nt \in NumberTexts}

\* C20: committing an unparsable numeric input proposes the cleared value to
\* applyEdit: no error is set, a record whose original numeric value is
\* defined gets a pending entry with an absent value, and a record whose
\* original value is absent gets no pending entry.
C20_UnparsableInputClears ==
   [][(EditStep /\ UnparsableInput) =>
        LET id == CommittedRecord.id
            original == tableData(historicData).originalValueMap[id]
        IN /\ error' = error
           /\ error' = NoError
           /\ original # Undefined =>
                 (/\ id \in DOMAIN editedValues'
                  /\ editedValues'[id] = [value_numeric |-> Undefined])
           /\ original = Undefined => id \notin DOMAIN editedValues']_vars

\* "abc" was committed in the cell of Alice's Dials 10: the entry is pending
\* with an absent value and no error is shown
C20_Witness ==
   /\ edits = 1
   /\ undoStack = << [metricId |-> "g1", oldValue |-> [value_numeric |-> Num(10)],
                      newValue |-> [value_numeric |-> Undefined]] >>
   /\ DOMAIN editedValues = {"g1"}
   /\ editedValues["g1"] = [value_numeric |-> Undefined]
   /\ error = NoError

\* ------------------------------------------------------------------------
\* the step in which the re-fetch of a save returns and handleSave ends
RefetchCompletes ==
   /\ Len(saves) > 0
   /\ saves[1].pc = "refetch"
   /\ Len(saves') < Len(saves)
   /\ successTimers' = successTimers + 1

\* C21: once the re-fetch of a successful save has returned, handleEdit
\* compares against the re-fetched value of every saved record: proposing
\* the value that was saved leaves no pending entry for the record, and
\* proposing any other value, the value it had before the save included,
\* leaves one.
C21_RefetchIsBaseline ==
   [][RefetchCompletes =>
        \A u \in saves[1].updates :
           \A e \in historicData'.metrics :
              e.id = u.id =>
                 /\ e.id \notin DOMAIN
                       handleEdit(editedValues', undoStack', e, UpdateValue(u)).editedValues
                 /\ \A v \in CommitInputs(e.data_type) \ {UpdateValue(u)} :
                       e.id \in DOMAIN
                          handleEdit(editedValues', undoStack', e, v).editedValues]_vars

\* after a save of 10 for the record r3 (empty before) and its re-fetch, the
\* snapshot shows 10 and a second edit proposing the empty value is pending
C21_Witness ==
   /\ saves = << >>
   /\ saveCalls = 1
   /\ edits = 2
   /\ db["r3"] = Num(10)
   /\ \E e \in historicData.metrics : e.id = "r3" /\ e.value_numeric = Num(10)
   /\ "r3" \in DOMAIN editedValues
   /\ editedValues["r3"] = WrapValue(TRUE, Undefined)

\* ------------------------------------------------------------------------
\* C22: the snapshot that the re-fetch of a save installs is a snapshot of
\* the selection that is current when it is installed, also when the
\* selection changed while the save was in flight.
C22_RefetchInstallsCurrentSelection ==
   [][RefetchCompletes => historicData'.for = CurrentSelection']_vars

\* ------------------------------------------------------------------------
\* the focused input holds text that differs from the text of its value
HoldsTypedInput ==
   /\ focusedCell # NoCell
   /\ localValue # StringOf(DisplayedValue(tableData(historicData), editedValues,
                                           focusedCell))

\* C23: Escape in a cell that holds typed, uncommitted text cancels the
\* text: the pending edits and the undo stack after the key press and the
\* blur it causes are those before it.
C23_EscapeCancelsTypedInput ==
   [][Escape /\ HoldsTypedInput =>
        editedValues' = editedValues /\ undoStack' = undoStack]_vars

\* ------------------------------------------------------------------------
\* the batch handleSave builds from the pending edits
BatchOf(edited) == {BulkUpdateEntry(i, edited[i]) : i \in DOMAIN edited}

\* C24: every save that was started ends with the saving flag reset,
\* whatever the Persistence Sink and the re-fetch answer.  When the sink
\* rejects a batch the pending edits and the undo history stay as they are
\* and no request is issued in the same step; while the edits are those of
\* the rejected batch, save can be invoked again and builds that same batch.
C24_SaveEndsAndCanBeRetried ==
   /\ saving ~> ~ saving
   /\ [][SinkFailureStep =>
           /\ ~ saving'
           /\ editedValues' = editedValues
           /\ undoStack' = undoStack
           /\ Len(saves') = Len(saves) - 1
           /\ saveCalls' = saveCalls
           /\ fetches' = fetches
           /\ (BatchOf(editedValues) = saves[1].updates =>
                 /\ CtrlSGuard'
                 /\ BatchOf(editedValues') = saves[1].updates)]_vars

\* the second save is in flight with a single edit ever made: the first save
\* was rejected by the sink (an accepted batch clears the edits), the saving
\* flag was reset and the retried batch holds the edit that was rejected
C24_Witness ==
   /\ saveCalls = 2
   /\ edits = 1
   /\ Len(undoStack) = 1
   /\ Len(saves) = 1
   /\ saves[1].pc = "bulkUpdate"
   /\ saves[1].updates = BatchOf(editedValues)
   /\ db = InitialDb

\* ------------------------------------------------------------------------
\* the step in which the Persistence Sink accepts the batch of the save
SinkSuccessStep ==
   /\ Len(saves) > 0
   /\ saves[1].pc = "bulkUpdate"
   /\ Len(saves') = Len(saves)
   /\ saves'[1].pc = "refetch"

\* C25: an edit made while a save is in flight survives the success of that
\* save: every pending entry that is not part of the accepted batch is still
\* pending, with its value, after the batch was accepted.
C25_EditsDuringSaveSurvive ==
   [][SinkSuccessStep =>
        \A i \in DOMAIN editedValues :
           BulkUpdateEntry(i, editedValues[i]) \notin saves[1].updates =>
              i \in DOMAIN editedValues' /\ editedValues'[i] = editedValues[i]]_vars

\* ------------------------------------------------------------------------
\* the step in which a save ends in the catch block of handleSave
SaveEndsWithError ==
   /\ Len(saves) > 0
   /\ Len(saves') < Len(saves)
   /\ error' # NoError

\* C26: when a save ends by surfacing an error, saveSuccess is not set with
\* the error and the edits of the batch are still pending: a rejection by
\* the Persistence Sink leaves pendingEdits and undoStack as they are, and
\* after a failed re-fetch every edit of the batch is still in pendingEdits
\* and the undo stack is not empty.
C26_ErrorKeepsEditsAndNoSuccess ==
   [][SaveEndsWithError =>
        /\ ~ saveSuccess'
        /\ IF saves[1].pc = "bulkUpdate"
           THEN editedValues' = editedValues /\ undoStack' = undoStack
           ELSE /\ saves[1].updates \subseteq BatchOf(editedValues')
                /\ Len(undoStack') > 0]_vars

\* ------------------------------------------------------------------------
\* the step in which the last outstanding fetch of the load effect fails
FetchFailureStep ==
   /\ fetches # EmptyBag
   /\ fetches' = EmptyBag
   /\ error' = "fetch failed"
   /\ saves' = saves

\* C27: when the fetch for a newly chosen selection has failed, the table
\* does not present the records of a snapshot that was fetched for another
\* selection, so no edit can target such a record.
C27_FailedFetchHidesOldSnapshot ==
   [][FetchFailureStep => (TableRendered' => historicData'.for = CurrentSelection')]_vars

\* ------------------------------------------------------------------------
\* C28: a navigation key that moves the focus to another cell appends
\* exactly one UndoAction, the one of the cell being left.
C28_MovingKeyLogsOneAction ==
   [][(\E key \in NavKeys : KeyDown(key)) /\ focusedCell' # focusedCell =>
        Len(undoStack') = Len(undoStack) + 1]_vars

\* ------------------------------------------------------------------------
\* the step in which the oldest pending just-saved timer fires
JustSavedTimerFires == justSavedTimers' = justSavedTimers - 1

\* C29: the timer of an earlier save does not clear the just-saved marking
\* of a later save: when a timer fires while the timer of a later save is
\* still pending, the marking stays as it is.
C29_TimerClearsOwnMarkingOnly ==
   [][JustSavedTimerFires /\ justSavedTimers > 1 => justSavedIds' = justSavedIds]_vars

\* ------------------------------------------------------------------------
\* C30: while a snapshot fetch that the load effect issued for the current
\* selection is outstanding, the loading flag is true.
C30_LoadingWhileFetchOutstanding ==
   BagIn(CurrentSelection, fetches) => loading

====
